---- MODULE Spec2Model ----
(***************************************************************************)
(* Model of scripts/deploy.py: the Zenodo client (class Zenodo) and the    *)
(* orchestrator upload_archive().  One run of upload_archive() is one      *)
(* behaviour: the arguments, the files and the environment are fixed in    *)
(* Init, every HTTP call is one action, and the server's answer (status    *)
(* code and JSON body) is chosen when the call is made.                    *)
(*                                                                         *)
(* Assumption on the server: every response body is JSON and has the       *)
(* fields the script reads (links, conceptdoi, submitted, metadata, id).   *)
(* The two fields the script itself treats as optional are optional here:  *)
(* "doi" of a listed deposition and "files" of a draft.                    *)
(***************************************************************************)
EXTENDS Integers, Sequences, FiniteSets, TLC

VARIABLES
    pc,               \* position of the run in upload_archive()
    archive_exists,   \* os.path.exists(archive)
    globbed,          \* len(glob(archive)): number of files the pattern matches
    doi,              \* argument doi
    sandbox,          \* argument sandbox
    zenodo_json,      \* argument zenodo_json (path of the template, or None)
    template,         \* read_json(zenodo_json): contents of the template file
    version,          \* argument version
    html_url,         \* argument html_url
    title,            \* argument title
    description,      \* argument description
    description_file, \* argument description_file (an open file, or None)
    environ,          \* os.environ: the set of variables that are set
    host,             \* Zenodo.host
    headers,          \* Zenodo.headers (the header names)
    deposits,         \* find_deposit: deposits
    target_deposit,   \* update_doi: target_deposit
    draft,            \* update_doi: draft
    new_version,      \* update_doi: new_version
    file,             \* update_doi: index of the next file of new_version to delete
    upload,           \* upload_archive(): upload
    path,             \* upload_archive(): index of the next globbed path to upload
    sent,             \* upload_metadata: the metadata of the PUT's body
    data,             \* upload_archive(): data
    published,        \* publish: published["links"].items()
    link,             \* publish: index of the next link to write
    files,            \* contents of the files named by GITHUB_ENV and GITHUB_OUTPUT
    stdout,           \* the "could not delete file" lines printed
    log,              \* the HTTP requests sent so far
    response,         \* response.status_code, the local of the method running
    exit              \* the message of sys.exit(), or the exception raised

vars == <<pc, archive_exists, globbed, doi, sandbox, zenodo_json, template,
          version, html_url, title, description, description_file, environ,
          host, headers, deposits, target_deposit, draft, new_version, file,
          upload, path, sent, data, published, link, files, stdout, log, response,
          exit>>

args == <<archive_exists, globbed, doi, sandbox, zenodo_json, template, version,
          html_url, title, description, description_file, environ>>

----------------------------------------------------------------------------
(* Bounds of the model *)

MaxDeposits == 2   \* depositions in the list the API returns
MaxFiles == 2      \* files attached to the fetched draft
MaxGlob == 2       \* files matched by the archive pattern
MaxLinks == 2      \* entries of the published record's links

----------------------------------------------------------------------------
(* Values *)

None == "None"
Absent == "absent"            \* a key a dict does not have

\* An entry of metadata["related_identifiers"]
RelatedIdentifier(url, relation) ==
    [identifier |-> url, relation |-> relation, resource_type |-> "software",
     scheme |-> "url"]

\* related_identifiers not in the dict
NoList == <<RelatedIdentifier(Absent, Absent)>>

DOIs == {"10.5281/zenodo.1", "10.5281/zenodo.2"}

Production == "zenodo.org"
Sandbox == "sandbox.zenodo.org"

\* The status codes a call may be answered with.
Statuses == {200, 201, 202, 204, 500}

\* The JSON body of a response that reports an error.
ErrorJson == [message |-> "error"]

Falsy(x) == x = None \/ x = ""

Range(s) == {s[i] : i \in 1..Len(s)}

\* A URL.  host = None: a path without "http", which get/post complete.
Url(h, resource, id, n) == [host |-> h, resource |-> resource, id |-> id, n |-> n]

EnvVars == <<"GITHUB_ENV", "GITHUB_OUTPUT">>

NoDeposit == [id |-> 0, host |-> None, hasDoi |-> FALSE, conceptdoi |-> None,
              submitted |-> FALSE, latest |-> 0]

NoMetadata == [version |-> Absent, publication_date |-> Absent,
               upload_type |-> Absent, title |-> Absent, description |-> Absent,
               related_identifiers |-> NoList]

NoRecord == [id |-> 0, host |-> None, files |-> 0, metadata |-> NoMetadata]

NoDraft == [id |-> 0, host |-> None, latest |-> 0]

\* A termination message: its text, and the status codes and response bodies
\* formatted into it.
NoExit == [text |-> None, status |-> {}, body |-> {}]

----------------------------------------------------------------------------
(* The server's answers *)

DepositFields == [hasDoi : BOOLEAN, conceptdoi : DOIs, submitted : BOOLEAN]

\* A deposition of the list served by h; its links point to h.  The id is the
\* position in the list, and latest_draft points to the deposition itself.
Deposit(h, i, f) ==
    [id |-> i, host |-> h, hasDoi |-> f.hasDoi, conceptdoi |-> f.conceptdoi,
     submitted |-> f.submitted, latest |-> i]

DepositLists(h) ==
    UNION {{[i \in 1..n |-> Deposit(h, i, fs[i])] : fs \in [1..n -> DepositFields]}
           : n \in 0..MaxDeposits}

\* The id of the draft a new version creates: none of the listed ones.
NewDraftId == MaxDeposits + 1

\* The metadata a deposition may already have: every key present or not.
ExistingMetadata ==
    [version : {Absent, "0.9"}, publication_date : {Absent, "2020-01-01"},
     upload_type : {Absent, "dataset"}, title : {Absent, "old title"},
     description : {Absent, "old description"},
     related_identifiers :
         {NoList, <<RelatedIdentifier("old url", "isSupplementTo")>>}]

\* What a .zenodo.json template may hold: every key present or not.
Templates ==
    [version : {Absent, "9.9"}, publication_date : {Absent},
     upload_type : {Absent, "publication"}, title : {Absent, "template title"},
     description : {Absent, "template description"},
     related_identifiers :
         {NoList, <<RelatedIdentifier("template url", "isDocumentedBy")>>}]

\* The templates of the runs of upload_archive(): only a title, or every key.
RunTemplates ==
    {[NoMetadata EXCEPT !.title = "template title"],
     [version |-> "9.9", publication_date |-> Absent,
      upload_type |-> "publication", title |-> "template title",
      description |-> "template description",
      related_identifiers |->
          <<RelatedIdentifier("template url", "isDocumentedBy")>>]}

\* The html_url, title, description and description_file of the runs of
\* upload_archive(): none given, the literal ones given, a description file.
RunOverrides ==
    {<<None, None, None, None>>,
     <<"release url", "new title", "new description", None>>,
     <<None, None, None, "file">>}

\* The metadata of the drafts the server answers a run of upload_archive()
\* with: nothing set, or every key set.
FetchedMetadata ==
    {NoMetadata,
     [version |-> "0.9", publication_date |-> "2020-01-01",
      upload_type |-> "dataset", title |-> "old title",
      description |-> "old description",
      related_identifiers |-> <<RelatedIdentifier("old url", "isSupplementTo")>>]}

\* The key/value pairs of the published record's links.
Links(n) == [i \in 1..n |-> [name |-> <<"link", i>>, value |-> <<"url", i>>]]

\* links of a record
links_newversion(d) == Url(d.host, "newversion", d.id, 0)
links_latest_draft(d) == Url(d.host, "draft", d.latest, 0)
links_bucket(u) == Url(u.host, "bucket", u.id, 0)
links_publish(d) == Url(d.host, "publish", d.id, 0)
file_links_self(u, n) == Url(u.host, "file", u.id, n)

----------------------------------------------------------------------------
(* class Zenodo *)

set_host(sb) == IF sb THEN Sandbox ELSE Production

\* get/post: a url that does not start with "http" is completed with the host
complete(url) == IF url.host = None THEN [url EXCEPT !.host = host] ELSE url

Request(method, url) == [method |-> method, url |-> url]

\* The status codes each call accepts
ok_depositions(status) == status \in {200, 201}
ok_new_doi(status) == status \in {200, 201}
ok_newversion(status) == status \in {200, 201}
ok_latest_draft(status) == status \in {200, 201}
ok_delete(status) == status \in {200, 204}
\* (mutant) any 2xx answer to the upload is taken for a success
ok_upload_any_2xx(status) == status \in 200..299
ok_upload(status) == status \in {200, 201}
ok_metadata(status) == status = 200
ok_publish(status) == status \in {200, 201, 202}

\* (mutant) a new version is requested of every deposit
always_new_version(d) == TRUE

\* update_doi: a published deposit needs a new version, an unpublished one is
\* the draft
needs_new_version(d) == d.submitted

\* sys.exit(message): the run ends, nothing else changes
SysExit(text, status, body) ==
    /\ pc' = "exited"
    /\ exit' = [text |-> text, status |-> status, body |-> body]

\* (mutant) the comparison of the conceptdoi is inverted
RECURSIVE scan_inverted(_, _, _)
scan_inverted(deps, d, i) ==
    IF i > Len(deps) THEN NoDeposit
    ELSE IF ~deps[i].hasDoi THEN scan_inverted(deps, d, i + 1)
    ELSE IF deps[i].conceptdoi # d THEN deps[i]
    ELSE scan_inverted(deps, d, i + 1)

\* find_deposit, the scan of the list from position i on
RECURSIVE scan(_, _, _)
scan(deps, d, i) ==
    IF i > Len(deps) THEN NoDeposit
    ELSE IF ~deps[i].hasDoi THEN scan(deps, d, i + 1)
    ELSE IF deps[i].conceptdoi = d THEN deps[i]
    ELSE scan(deps, d, i + 1)

find_deposit(deps, d) == scan(deps, d, 1)

\* dict.update: the keys of other replace those of m
IsAbsent(k, v) == IF k = "related_identifiers" THEN v = NoList ELSE v = Absent

dict_update(m, other) ==
    [k \in DOMAIN m |-> IF IsAbsent(k, other[k]) THEN m[k] ELSE other[k]]

Today == "today"
FileContents == "contents of the description file"

\* upload_metadata, the steps on metadata in the order of the code
merge_template(m, zj, tpl) == IF ~Falsy(zj) THEN dict_update(m, tpl) ELSE m

set_fixed(m, v) == [m EXCEPT !.version = v, !.publication_date = Today]

default_upload_type(m) ==
    IF m.upload_type = Absent THEN [m EXCEPT !.upload_type = "software"] ELSE m

add_related(m, url) ==
    IF ~Falsy(url)
    THEN [m EXCEPT !.related_identifiers =
             Append(IF @ = NoList THEN <<>> ELSE @,
                    RelatedIdentifier(url, "isSupplementTo"))]
    ELSE m

set_title(m, t) == IF t # None THEN [m EXCEPT !.title = t] ELSE m

set_description(m, d, df) ==
    IF d # None THEN [m EXCEPT !.description = d]
    ELSE IF df # None THEN [m EXCEPT !.description = FileContents]
    ELSE m

\* (mutant) the template is merged after the fixed fields are set
metadata_sent_template_last(m, zj, tpl, v, url, t, d, df) ==
    set_description(
        set_title(
            add_related(
                merge_template(default_upload_type(set_fixed(m, v)), zj, tpl),
                url),
            t),
        d, df)

metadata_sent(m, zj, tpl, v, url, t, d, df) ==
    set_description(
        set_title(
            add_related(
                default_upload_type(set_fixed(merge_template(m, zj, tpl), v)),
                url),
            t),
        d, df)

----------------------------------------------------------------------------
(* The run *)

\* The arguments, files and environment of a run of upload_archive().
Init ==
    /\ pc = "start"
    /\ archive_exists \in BOOLEAN
    /\ globbed \in 0..MaxGlob
    /\ doi \in {None, "10.5281/zenodo.1"}
    /\ sandbox \in BOOLEAN
    /\ \/ zenodo_json = None /\ template = NoMetadata
       \/ zenodo_json = ".zenodo.json"
          /\ template \in RunTemplates
    /\ version = "1.2.3"
    /\ \E o \in RunOverrides :
         /\ html_url = o[1]
         /\ title = o[2]
         /\ description = o[3]
         /\ description_file = o[4]
    /\ environ \in SUBSET Range(EnvVars)
    /\ host = None
    /\ headers = {"Accept"}
    /\ deposits = <<>>
    /\ target_deposit = NoDeposit
    /\ draft = NoDraft
    /\ new_version = NoRecord
    /\ file = 0
    /\ upload = NoRecord
    /\ path = 0
    /\ sent = NoMetadata
    /\ data = NoRecord
    /\ published = <<>>
    /\ link = 0
    /\ files = [v \in Range(EnvVars) |-> <<>>]
    /\ stdout = <<>>
    /\ log = <<>>
    /\ response = 0
    /\ exit = NoExit

\* upload_archive(), up to the choice of how the draft is obtained
Begin ==
    /\ pc = "start"
    /\ IF ~archive_exists
       THEN SysExit("Archive does not exist", {}, {}) /\ host' = host
       ELSE /\ host' = set_host(sandbox)
            /\ IF ~Falsy(doi)
               THEN pc' = "get_depositions" /\ exit' = exit
               ELSE IF Falsy(zenodo_json)
               THEN SysExit("You MUST provided a .zenodo.json template", {}, {})
               ELSE pc' = "new_doi" /\ exit' = exit
    /\ UNCHANGED <<args, headers, deposits, target_deposit, draft, new_version,
                   file, upload, path, sent, data, published, link, files,
                   stdout, log, response>>

\* get_depositions
GetDepositions ==
    /\ pc = "get_depositions"
    /\ \E status \in Statuses :
         LET url == complete(Url(None, "depositions", 0, 0)) IN
         /\ log' = Append(log, Request("GET", url))
         /\ response' = status
         /\ IF ~ok_depositions(status)
            THEN SysExit("Cannot query depositions", {status}, {ErrorJson})
                 /\ deposits' = deposits
            ELSE /\ deposits' \in DepositLists(url.host)
                 /\ pc' = "find_deposit"
                 /\ exit' = exit
    /\ UNCHANGED <<args, host, headers, target_deposit, draft, new_version, file,
                   upload, path, sent, data, published, link, files, stdout>>

\* update_doi: find_deposit, after its get_depositions returned, and the exit
\* when it finds nothing
FindDeposit ==
    /\ pc = "find_deposit"
    /\ target_deposit' = find_deposit(deposits, doi)
    /\ IF target_deposit' = NoDeposit
       THEN /\ SysExit("Cannot find deposit with doi", {}, {})
            /\ UNCHANGED <<deposits, response>>
       ELSE /\ deposits' = <<>>     \* the locals of find_deposit are gone
            /\ response' = 0
            /\ pc' = "update_doi"
            /\ exit' = exit
    /\ UNCHANGED <<args, host, headers, draft, new_version, file, upload, path,
                   sent, data, published, link, files, stdout, log>>

\* update_doi: the deposit found is an unpublished draft
ReuseDraft ==
    /\ pc = "update_doi"
    /\ ~needs_new_version(target_deposit)
    /\ draft' = [id |-> target_deposit.id, host |-> target_deposit.host,
                 latest |-> target_deposit.latest]
    /\ pc' = "latest_draft"
    /\ UNCHANGED <<args, host, headers, deposits, target_deposit, new_version,
                   file, upload, path, sent, data, published, link, files,
                   stdout, log, response, exit>>

\* update_doi: the deposit found is published, a new version is requested
NewVersion ==
    /\ pc = "update_doi"
    /\ needs_new_version(target_deposit)
    /\ \E status \in Statuses :
         LET url == complete(links_newversion(target_deposit)) IN
         /\ log' = Append(log, Request("POST", url))
         /\ response' = status
         /\ IF ~ok_newversion(status)
            THEN SysExit("Cannot create a new version for doi", {}, {ErrorJson})
                 /\ draft' = draft
            ELSE /\ draft' = [id |-> target_deposit.id, host |-> url.host,
                              latest |-> NewDraftId]
                 /\ pc' = "latest_draft"
                 /\ exit' = exit
    /\ UNCHANGED <<args, host, headers, deposits, target_deposit, new_version,
                   file, upload, path, sent, data, published, link, files, stdout>>

\* (mutant) the draft is looked up on the deposit found, not on the response
\* of the new version
latest_draft_url_of_target == links_latest_draft(target_deposit)

\* update_doi: the url of the draft to edit
latest_draft_url == links_latest_draft(draft)

\* update_doi: the latest draft is fetched
LatestDraft ==
    /\ pc = "latest_draft"
    /\ \E status \in Statuses :
         LET url == complete(latest_draft_url) IN
         /\ log' = Append(log, Request("GET", url))
         /\ response' = status
         /\ IF ~ok_latest_draft(status)
            THEN /\ SysExit("Cannot create a draft for doi", {}, {ErrorJson})
                 /\ UNCHANGED <<new_version, file>>
            ELSE /\ \E n \in 0..MaxFiles, m \in FetchedMetadata :
                      new_version' = [id |-> url.id, host |-> url.host,
                                      files |-> n, metadata |-> m]
                 /\ file' = 1
                 /\ pc' = "delete_files"
                 /\ exit' = exit
    /\ UNCHANGED <<args, host, headers, deposits, target_deposit, draft, upload,
                   path, sent, data, published, link, files, stdout>>

\* (mutant) a DELETE that fails ends the run
DeleteFileFatal ==
    /\ pc = "delete_files"
    /\ file <= new_version.files
    /\ \E status \in Statuses :
         /\ log' = Append(log, Request("DELETE", file_links_self(new_version, file)))
         /\ response' = status
         /\ IF ~(status \in {200, 204})
            THEN SysExit("could not delete file", {}, {ErrorJson}) /\ file' = file
            ELSE file' = file + 1 /\ pc' = pc /\ exit' = exit
    /\ UNCHANGED <<args, host, headers, deposits, target_deposit, draft,
                   new_version, upload, path, sent, data, published, link, files,
                   stdout>>

\* update_doi: one turn of the loop over new_version["files"]
DeleteFile ==
    /\ pc = "delete_files"
    /\ file <= new_version.files
    /\ \E status \in Statuses :
         /\ log' = Append(log, Request("DELETE", file_links_self(new_version, file)))
         /\ response' = status
         /\ stdout' = IF ~ok_delete(status)
                      THEN Append(stdout, <<"could not delete file", file>>)
                      ELSE stdout
    /\ file' = file + 1
    /\ UNCHANGED <<pc, args, host, headers, deposits, target_deposit, draft,
                   new_version, upload, path, sent, data, published, link, files,
                   exit>>

\* update_doi returns new_version, which upload_archive() names upload
ReturnDraft ==
    /\ pc = "delete_files"
    /\ file > new_version.files
    /\ upload' = new_version
    /\ path' = 1
    /\ response' = 0            \* the locals of update_doi are gone
    /\ pc' = "upload_archive"
    /\ UNCHANGED <<args, host, headers, deposits, target_deposit, draft,
                   new_version, file, sent, data, published, link, files,
                   stdout, log, exit>>

\* new_doi
NewDoi ==
    /\ pc = "new_doi"
    /\ \E status \in Statuses :
         LET url == Url(Production, "depositions", 0, 0) IN
         /\ log' = Append(log, Request("POST", url))
         /\ response' = status
         /\ IF ~ok_new_doi(status)
            THEN /\ SysExit("Trouble requesting new upload", {status}, {ErrorJson})
                 /\ UNCHANGED <<upload, path>>
            ELSE /\ upload' = [id |-> NewDraftId, host |-> url.host, files |-> 0,
                               metadata |-> NoMetadata]
                 /\ path' = 1
                 /\ pc' = "upload_archive"
                 /\ exit' = exit
    /\ UNCHANGED <<args, host, headers, deposits, target_deposit, draft,
                   new_version, file, sent, data, published, link, files, stdout>>

\* Zenodo.upload_archive: one turn of the loop over glob(archive)
UploadFile ==
    /\ pc = "upload_archive"
    /\ path <= globbed
    /\ \E status \in Statuses :
         /\ log' = Append(log, Request("PUT", [links_bucket(upload) EXCEPT !.n = path]))
         /\ response' = status
         /\ IF ~ok_upload(status)
            THEN SysExit("Trouble uploading artifact", {status}, {}) /\ path' = path
            ELSE path' = path + 1 /\ pc' = pc /\ exit' = exit
    /\ UNCHANGED <<args, host, headers, deposits, target_deposit, draft,
                   new_version, file, upload, sent, data, published, link, files,
                   stdout>>

\* upload_metadata, once every globbed path is uploaded
UploadMetadata ==
    /\ pc = "upload_archive"
    /\ path > globbed
    /\ LET metadata == metadata_sent(upload.metadata, zenodo_json, template,
                                     version, html_url, title, description,
                                     description_file)
           url == Url(Production, "depositions", upload.id, 0)
       IN
       /\ upload' = [upload EXCEPT !.metadata = metadata]
       /\ headers' = headers \cup {"Content-Type"}
       /\ sent' = metadata
       /\ \E status \in Statuses :
            /\ log' = Append(log, Request("PUT", url))
            /\ response' = status
            /\ IF ~ok_metadata(status)
               THEN SysExit("Trouble uploading metadata", {status}, {ErrorJson})
                    /\ data' = data
               ELSE /\ data' = [id |-> upload.id, host |-> url.host, files |-> globbed,
                                metadata |-> metadata]
                    /\ pc' = "publish"
                    /\ exit' = exit
    /\ UNCHANGED <<args, host, deposits, target_deposit, draft, new_version, file,
                   path, published, link, files, stdout>>

\* publish, up to the loop over the links
Publish ==
    /\ pc = "publish"
    /\ \E status \in Statuses :
         /\ log' = Append(log, Request("POST", links_publish(data)))
         /\ response' = status
         /\ IF ~ok_publish(status)
            THEN /\ SysExit("Issue publishing record", {status}, {ErrorJson})
                 /\ UNCHANGED <<published, link>>
            ELSE /\ \E n \in 0..MaxLinks : published' = Links(n)
                 /\ link' = 1
                 /\ pc' = "set_env_and_output"
                 /\ exit' = exit
    /\ UNCHANGED <<args, host, headers, deposits, target_deposit, draft,
                   new_version, file, upload, path, sent, data, files, stdout>>

\* set_env_and_output, the loop over GITHUB_ENV and GITHUB_OUTPUT from the
\* i-th variable on: the files after it, and whether open() raised
RECURSIVE write_env(_, _, _, _)
write_env(fs, env, line, i) ==
    IF i > Len(EnvVars) THEN [files |-> fs, raised |-> FALSE]
    ELSE IF EnvVars[i] \notin env THEN [files |-> fs, raised |-> TRUE]
    ELSE write_env([fs EXCEPT ![EnvVars[i]] = Append(@, line)], env, line, i + 1)

set_env_and_output(fs, env, name, value) ==
    write_env(fs, env, [name |-> name, value |-> value], 1)

\* publish: one turn of the loop over published["links"].items()
SetEnvAndOutput ==
    /\ pc = "set_env_and_output"
    /\ link <= Len(published)
    /\ LET r == set_env_and_output(files, environ, published[link].name,
                                   published[link].value)
       IN
       /\ files' = r.files
       /\ IF r.raised
          THEN /\ pc' = "raised"
               /\ exit' = [text |-> "TypeError", status |-> {}, body |-> {}]
               /\ link' = link
          ELSE /\ link' = link + 1
               /\ pc' = pc
               /\ exit' = exit
    /\ UNCHANGED <<args, host, headers, deposits, target_deposit, draft,
                   new_version, file, upload, path, sent, data, published,
                   stdout, log, response>>

\* upload_archive() returns
Return ==
    /\ pc = "set_env_and_output"
    /\ link > Len(published)
    /\ pc' = "done"
    /\ UNCHANGED <<args, host, headers, deposits, target_deposit, draft,
                   new_version, file, upload, path, sent, data, published,
                   link, files, stdout, log, response, exit>>

Next ==
    \/ Begin
    \/ GetDepositions
    \/ FindDeposit
    \/ ReuseDraft
    \/ NewVersion
    \/ LatestDraft
    \/ DeleteFile
    \/ ReturnDraft
    \/ NewDoi
    \/ UploadFile
    \/ UploadMetadata
    \/ Publish
    \/ SetEnvAndOutput
    \/ Return

Spec == Init /\ [][Next]_vars

----------------------------------------------------------------------------
(* A call of Zenodo.upload_metadata alone, on every combination of existing *)
(* metadata, template and overrides.                                        *)

InitMeta ==
    /\ pc = "upload_archive"
    /\ archive_exists = TRUE
    /\ globbed = 0
    /\ doi = None
    /\ sandbox = FALSE
    /\ \/ zenodo_json = None /\ template = NoMetadata
       \/ zenodo_json = ".zenodo.json" /\ template \in Templates
    /\ version = "1.2.3"
    /\ html_url \in {None, "", "release url"}
    /\ title \in {None, "", "new title"}
    /\ description \in {None, "", "new description"}
    /\ description_file \in {None, "file"}
    /\ environ = Range(EnvVars)
    /\ host = set_host(sandbox)
    /\ headers = {"Accept"}
    /\ deposits = <<>>
    /\ target_deposit = NoDeposit
    /\ draft = NoDraft
    /\ new_version = NoRecord
    /\ file = 0
    /\ \E m \in ExistingMetadata :
         upload = [id |-> NewDraftId, host |-> host, files |-> 0, metadata |-> m]
    /\ path = 1
    /\ sent = NoMetadata
    /\ data = NoRecord
    /\ published = <<>>
    /\ link = 0
    /\ files = [v \in Range(EnvVars) |-> <<>>]
    /\ stdout = <<>>
    /\ log = <<>>
    /\ response = 0
    /\ exit = NoExit

NextMeta == UploadMetadata

SpecMeta == InitMeta /\ [][NextMeta]_vars

----------------------------------------------------------------------------
(* Properties *)

Last(s) == s[Len(s)]

\* The kinds of request
IsList(r) == r.method = "GET" /\ r.url.resource = "depositions"
IsCreate(r) == r.method = "POST" /\ r.url.resource = "depositions"
IsNewVersion(r) == r.method = "POST" /\ r.url.resource = "newversion"
IsFetch(r) == r.method = "GET" /\ r.url.resource = "draft"
IsDelete(r) == r.method = "DELETE" /\ r.url.resource = "file"
IsUploadPut(r) == r.method = "PUT" /\ r.url.resource = "bucket"
IsMetadataPut(r) == r.method = "PUT" /\ r.url.resource = "depositions"
IsPublishPost(r) == r.method = "POST" /\ r.url.resource = "publish"

\* The step of the run a request belongs to: draft acquisition, file upload,
\* metadata update, publish.
Phase(r) ==
    IF IsUploadPut(r) THEN 2
    ELSE IF IsMetadataPut(r) THEN 3
    ELSE IF IsPublishPost(r) THEN 4
    ELSE 1

Where(P(_)) == {i \in 1..Len(log) : P(log[i])}
Count(P(_)) == Cardinality(Where(P))

\* The request a step sends, if it sends one
Sends == Len(log') = Len(log) + 1 /\ SubSeq(log', 1, Len(log)) = log
Sent(P(_)) == Sends /\ P(Last(log'))

Ended == pc \in {"exited", "raised", "done"}

\* C1: the requests of a run come in the order draft acquisition (list, new
\* version, fetch and file DELETEs, or create), file upload PUTs, one metadata
\* PUT, one publish POST; an upload PUT is sent only with a draft obtained and
\* after the previous upload PUT was answered 200 or 201; the metadata PUT only
\* after an upload PUT for every matched file, the last answered 200 or 201;
\* the publish POST only right after the metadata PUT was answered 200; a
\* required call answered otherwise ends the run, and an ended run does nothing.
C1Step ==
    /\ ~Ended
    /\ log' # log =>
         /\ Sends
         /\ \A i \in 1..Len(log) : Phase(log[i]) <= Phase(Last(log'))
    /\ Sent(IsUploadPut) =>
         /\ upload # NoRecord
         /\ upload.id \in {new_version.id, NewDraftId}
         /\ Count(IsUploadPut) > 0 => IsUploadPut(Last(log)) /\ response \in {200, 201}
         /\ response' \notin {200, 201} => pc' = "exited"
    /\ Sent(IsMetadataPut) =>
         /\ upload # NoRecord
         /\ Count(IsMetadataPut) = 0
         /\ Count(IsUploadPut) = globbed
         /\ Count(IsUploadPut) > 0 => IsUploadPut(Last(log)) /\ response \in {200, 201}
         /\ response' # 200 => pc' = "exited"
    /\ Sent(IsPublishPost) =>
         /\ Count(IsPublishPost) = 0
         /\ log # <<>> /\ IsMetadataPut(Last(log)) /\ response = 200
         /\ response' \notin {200, 201, 202} => pc' = "exited"
    /\ (Sent(IsList) \/ Sent(IsCreate) \/ Sent(IsNewVersion) \/ Sent(IsFetch)) =>
         (response' \notin {200, 201} => pc' = "exited" /\ upload' = NoRecord)

\* C1, of every step of every run
C1Thm == [][C1Step]_vars

\* A complete run: list, new version, fetch, two DELETEs, two upload PUTs, the
\* metadata PUT and the publish POST.
C1Wit ==
    /\ pc = "done"
    /\ target_deposit.submitted
    /\ new_version.files = 2
    /\ globbed = 2
    /\ Len(log) = 9
    /\ IsPublishPost(Last(log))

\* C2: with a DOI that is the conceptdoi of no deposition of the list, the run
\* ends with "Cannot find deposit", having sent the list GET and nothing else,
\* and sends nothing afterwards.
NoneMatches == \A i \in 1..Len(deposits) : deposits[i].conceptdoi # doi

C2Step ==
    /\ (pc = "find_deposit" /\ NoneMatches) =>
         /\ pc' = "exited"
         /\ exit'.text = "Cannot find deposit with doi"
         /\ log' = log
         /\ \A i \in 1..Len(log) : IsList(log[i])
    /\ pc = "exited" => log' = log

\* C2, of every step of every run
C2Thm == [][C2Step]_vars

C2Wit ==
    /\ pc = "exited"
    /\ exit.text = "Cannot find deposit with doi"
    /\ Len(deposits) = 2
    /\ NoneMatches
    /\ Len(log) = 1

\* C3: update_doi POSTs to the newversion link of the deposit found exactly
\* when that deposit is submitted.  An unsubmitted deposit is itself the draft
\* whose latest_draft link is fetched; for a submitted one the POST comes
\* first and the link fetched is the one of the POST's response; the record
\* fetched is what update_doi returns.
Resolved == draft # NoDraft
Fetched == new_version # NoRecord
Returned == doi # None /\ upload # NoRecord

C3Thm ==
    /\ Count(IsNewVersion) > 0 =>
         /\ target_deposit.submitted
         /\ Count(IsNewVersion) = 1
         /\ \A i \in Where(IsNewVersion) :
              /\ log[i].url = Url(target_deposit.host, "newversion",
                                  target_deposit.id, 0)
              /\ \A j \in Where(IsFetch) : i < j
    /\ Resolved =>
         /\ target_deposit.submitted <=> Count(IsNewVersion) = 1
         /\ ~target_deposit.submitted =>
              draft = [id |-> target_deposit.id, host |-> target_deposit.host,
                       latest |-> target_deposit.latest]
         /\ target_deposit.submitted => draft.latest = NewDraftId
    /\ Count(IsFetch) > 0 =>
         /\ Resolved
         /\ Count(IsFetch) = 1
         /\ \A j \in Where(IsFetch) :
              log[j].url = Url(draft.host, "draft", draft.latest, 0)
    /\ Fetched =>
         /\ Count(IsFetch) = 1
         /\ new_version.id = draft.latest
         /\ new_version.host = draft.host
    /\ Returned =>
         /\ Fetched
         /\ upload.id = new_version.id
         /\ upload.host = new_version.host
         /\ upload.files = new_version.files
         /\ sent = NoMetadata => upload = new_version

\* update_doi returned the draft of a new version of a submitted deposit.
C3Wit ==
    /\ Returned
    /\ target_deposit.submitted
    /\ Count(IsNewVersion) = 1
    /\ upload.id = NewDraftId
    /\ upload.id # target_deposit.id

\* C4: a run with a DOI whose deposit is found unsubmitted and whose publish
\* POST was accepted has sent no new-version POST, one upload PUT for each
\* file the archive pattern matches, one metadata PUT and one publish POST.
PublishAccepted == pc \in {"set_env_and_output", "raised", "done"}

C4Thm ==
    (PublishAccepted /\ doi # None /\ ~target_deposit.submitted) =>
        /\ Count(IsNewVersion) = 0
        /\ Count(IsUploadPut) = globbed
        /\ \A n \in 1..globbed :
             \E i \in Where(IsUploadPut) : log[i].url.n = n
        /\ Count(IsMetadataPut) = 1
        /\ Count(IsPublishPost) = 1

\* The run of "--doi X --version 1.2.3 archive.zip" that ends normally.
C4Wit ==
    /\ pc = "done"
    /\ doi # None
    /\ ~target_deposit.submitted
    /\ target_deposit # NoDeposit
    /\ globbed = 1
    /\ Count(IsUploadPut) = 1

\* C5: the DELETE requests of update_doi are one for each file of the fetched
\* draft, on its links.self, in the order of the list; a DELETE answered
\* outside {200, 204} prints a line and never ends the run: the loop goes on
\* with the next file, and update_doi returns the draft.
Deletes == SelectSeq(log, IsDelete)

Merged(key) ==
    IF zenodo_json # None /\ template[key] # Absent
    THEN template[key]
    ELSE upload.metadata[key]

C6Step ==
    (pc = "upload_archive" /\ path > globbed) =>
        /\ Sent(IsMetadataPut)
        /\ sent'.version = version
        /\ sent'.upload_type =
             IF Merged("upload_type") = Absent THEN "software"
             ELSE Merged("upload_type")
        /\ sent'.title = IF title # None THEN title ELSE Merged("title")
        /\ sent'.description =
             IF description # None THEN description
             ELSE IF description_file # None THEN FileContents
             ELSE Merged("description")

\* C6, of every call of upload_metadata
C6Thm == [][C6Step]_vars

\* The metadata was sent for a template with a version, an upload_type and a
\* title, and with a title, a description and a description file given.
C6Wit ==
    /\ Count(IsMetadataPut) = 1
    /\ zenodo_json # None
    /\ template.version = "9.9"
    /\ template.upload_type = "publication"
    /\ template.title = "template title"
    /\ title = "new title"
    /\ description = "new description"
    /\ description_file # None
    /\ sent.version = "1.2.3"
    /\ sent.upload_type = "publication"
    /\ sent.title = "new title"
    /\ sent.description = "new description"

\* C7: a required call (list, create, new version, draft fetch, file upload,
\* metadata update, publish) answered with a status that is not 2xx ends the
\* run with a message that holds the status code and the body of the response.
Required(r) ==
    \/ IsList(r) \/ IsCreate(r) \/ IsNewVersion(r) \/ IsFetch(r)
    \/ IsUploadPut(r) \/ IsMetadataPut(r) \/ IsPublishPost(r)

C7Claim ==
    (log # <<>> /\ Required(Last(log)) /\ response # 0 /\ response \notin 200..299) =>
        /\ pc = "exited"
        /\ exit.status = {response}
        /\ exit.body = {ErrorJson}

\* C8: after an accepted publish the run ends normally, and then the file of
\* each of GITHUB_ENV and GITHUB_OUTPUT that is set holds one line NAME=VALUE
\* for every link of the published record, in order; a variable that is not
\* set is skipped.
Lines == [i \in 1..Len(published) |->
             [name |-> published[i].name, value |-> published[i].value]]

C8Claim ==
    PublishAccepted =>
        /\ pc # "raised"
        /\ pc = "done" =>
             \A v \in Range(EnvVars) :
                 files[v] = IF v \in environ THEN Lines ELSE <<>>

\* C9: find_deposit returns the first deposition of the list whose conceptdoi
\* is the DOI, whether or not it has a doi field, and none exactly when no
\* deposition of the list has that conceptdoi.
Matches == {i \in 1..Len(deposits) : deposits[i].conceptdoi = doi}

FirstMatch ==
    IF Matches = {} THEN NoDeposit
    ELSE deposits[CHOOSE i \in Matches : \A j \in Matches : i <= j]

C9Step == pc = "find_deposit" => target_deposit' = FirstMatch

\* C9, of every call of find_deposit
C9Claim == [][C9Step]_vars

\* C10: the requests whose URL the client builds (list, create, metadata PUT)
\* go to sandbox.zenodo.org for a sandbox client and to zenodo.org otherwise,
\* and a sandbox client sends no request to zenodo.org.
C10Claim ==
    /\ \A i \in Where(IsList) \cup Where(IsCreate) \cup Where(IsMetadataPut) :
         log[i].url.host =
             IF sandbox THEN "sandbox.zenodo.org" ELSE "zenodo.org"
    /\ sandbox => \A i \in 1..Len(log) : log[i].url.host # "zenodo.org"

====
